---- MODULE Spec2Model ----
(***************************************************************************)
(* str2go-i18n: rewriting of target-script string literals of one Go unit  *)
(* into go-i18n localization calls (src/main.go).                          *)
(*                                                                         *)
(* Runes are modelled by one-character names.  A literal's Value is the    *)
(* sequence of its runes, delimiters included.                             *)
(***************************************************************************)
EXTENDS Integers, Sequences, FiniteSets, TLC

VARIABLES
    pc,          \* position in main / in the function under test
    imports,     \* file.Imports: the unit's import specs
    decls,       \* file.Decls: the slots holding literals and calls
    comments,    \* file.Comments: one span per comment
    stack,       \* astutil.Apply: the nodes still to visit, in document order
    needsImport, \* transform's flag
    rewrites,    \* number of cursor.Replace calls of the running pass
    pass,        \* number of transform passes started
    entry,       \* the unit as it was when the running transform pass began
    unit0,       \* the unit as the parser built it
    ensureCalls, \* number of ensureI18nImport invocations of the running pass
    outFile,     \* the output path: untouched, or the file main left there
    message,     \* generateMessageID: its argument
    msgID,       \* generateMessageID: its result
    node,        \* isInComment: the span of its node argument
    found        \* isInComment: its result

vars == <<pc, imports, decls, comments, stack, needsImport, rewrites, pass,
          entry, unit0, ensureCalls, outFile, message, msgID, node, found>>

None == "none"

(***************************************************************************)
(* Runes.  Q is the double quote; ni, hao are Han runes the pinyin         *)
(* dictionary knows; rad is a Han rune it has no entry for (a radical);    *)
(* B is an upper-case ASCII letter, 7 a digit.                             *)
(***************************************************************************)
Q == "Q"

\* the back quote of a raw string literal
BQ == "BQ"

HanRunes == {"ni", "hao", "rad"}

Runes == {Q, "ni", "hao", "rad", "B", "7"}

\* hasChinese = regexp.MustCompile(`\p{Han}`), on one rune
hasChineseRune(r) == r \in HanRunes

\* hasChinese.MatchString(s)
hasChinese(s) == \E i \in 1..Len(s) : hasChineseRune(s[i])

\* pinyin.Pinyin(string(char), args) with args.Style = FirstLetter: one list
\* of readings per rune the dictionary knows, nothing for the others
Pinyin(r) ==
    CASE r = "ni"  -> << <<"n">> >>
      [] r = "hao" -> << <<"h">> >>
      [] OTHER     -> << >>

\* regexp `[a-zA-Z0-9]` on one rune
isAlnumRune(r) == r \in {"B", "7", "n", "h", "b", "m", "s", "g"}

\* regexp `^[a-zA-Z0-9]` on a string
startsWithAlnum(s) == Len(s) > 0 /\ isAlnumRune(s[1])

\* regexp `^[a-zA-Z]` on a string
startsWithLetter(s) == Len(s) > 0 /\ s[1] \in {"B", "n", "h", "b", "m", "s", "g"}

\* strings.ToLower on one rune
ToLower(r) == IF r = "B" THEN "b" ELSE r

RECURSIVE TrimLeft(_)
TrimLeft(s) == IF Len(s) > 0 /\ s[1] = Q THEN TrimLeft(Tail(s)) ELSE s

RECURSIVE TrimRight(_)
TrimRight(s) ==
    IF Len(s) > 0 /\ s[Len(s)] = Q THEN TrimRight(SubSeq(s, 1, Len(s) - 1)) ELSE s

\* strings.Trim(message, `"`)
Trim(s) == TrimRight(TrimLeft(s))

msg == <<"m", "s", "g">>

\* the loop over the Han runes with the count taken before the rune is known
\* to have a reading
RECURSIVE pinyinLoopCountAll(_, _, _, _, _)
pinyinLoopCountAll(s, i, result, count, maxChars) ==
    IF i > Len(s) THEN result
    ELSE IF hasChineseRune(s[i])
         THEN LET r == IF Len(Pinyin(s[i])) > 0 /\ Len(Pinyin(s[i])[1]) > 0
                       THEN result \o <<Pinyin(s[i])[1][1]>>
                       ELSE result
              IN  IF count + 1 >= maxChars THEN r
                  ELSE pinyinLoopCountAll(s, i + 1, r, count + 1, maxChars)
         ELSE pinyinLoopCountAll(s, i + 1, result, count, maxChars)

\* the loop of extractPinyinPrefix over the Han runes, from index i on
RECURSIVE pinyinLoop(_, _, _, _, _)
pinyinLoop(s, i, result, count, maxChars) ==
    IF i > Len(s) THEN result
    ELSE IF hasChineseRune(s[i])
              /\ Len(Pinyin(s[i])) > 0 /\ Len(Pinyin(s[i])[1]) > 0
         THEN IF count + 1 >= maxChars
              THEN result \o <<Pinyin(s[i])[1][1]>>
              ELSE pinyinLoop(s, i + 1, result \o <<Pinyin(s[i])[1][1]>>,
                              count + 1, maxChars)
         ELSE pinyinLoop(s, i + 1, result, count, maxChars)

\* the loop of extractPinyinPrefix over the ASCII runes, from index i on
RECURSIVE asciiLoop(_, _, _, _, _)
asciiLoop(s, i, result, count, maxChars) ==
    IF i > Len(s) THEN result
    ELSE IF isAlnumRune(s[i])
         THEN IF count + 1 >= maxChars
              THEN result \o <<ToLower(s[i])>>
              ELSE asciiLoop(s, i + 1, result \o <<ToLower(s[i])>>,
                             count + 1, maxChars)
         ELSE asciiLoop(s, i + 1, result, count, maxChars)

extractPinyinPrefix(m, maxChars) ==
    IF Len(m) = 0 THEN msg
    ELSE LET s == Trim(m)
             id == IF hasChinese(s)
                   THEN pinyinLoop(s, 1, <<>>, 0, maxChars)
                   ELSE asciiLoop(s, 1, <<>>, 0, maxChars)
         IN  IF id # <<>> /\ startsWithLetter(id) THEN id ELSE msg

MaxChars == 5

generateMessageID(m) == extractPinyinPrefix(Trim(m), MaxChars)

(***************************************************************************)
(* The tree.  A BasicLit carries its token Kind, its Value and the line    *)
(* and column fset.Position gives for its Pos() and End().  The call that  *)
(* transform builds is kept as the CallExpr with the three KeyValueExpr    *)
(* that hold a literal, in document order: MessageID, ID, Other.  A        *)
(* top-level slot names the parent node and the parent's field that holds  *)
(* the node (cursor.Parent(), cursor.Name()) and, under a KeyValueExpr,    *)
(* the name of its Key identifier.                                         *)
(***************************************************************************)
BasicLit(kind, value, pos, end) ==
    [kind |-> "BasicLit", Kind |-> kind, Value |-> value, Pos |-> pos, End |-> end]

NoPos == <<0, 0>>

\* &ast.BasicLit{Kind: token.STRING, Value: `"` + msgID + `"`}: no position,
\* so Pos() is token.NoPos and End() is the file's offset len(Value)
idLit(id) == BasicLit("STRING", <<Q>> \o id \o <<Q>>, NoPos, <<1, Len(id) + 2>>)

\* the CallExpr i18n.Localizer.MustLocalize(&i18n.LocalizeConfig{...}) built
\* around lit
newNode(lit) ==
    LET id == generateMessageID(lit.Value)
    IN  [kind |-> "CallExpr",
         Elts |-> << [Key |-> "MessageID", Value |-> idLit(id)],
                     [Key |-> "ID",        Value |-> idLit(id)],
                     [Key |-> "Other",     Value |-> lit] >>]

\* the import path ensureI18nImport looks for, quoted: `"`+importPath+`"`
importPath == <<"i18n">>

quotedImportPath == <<Q>> \o importPath \o <<Q>>

\* the import spec's Path literal as a slot of the tree
importSlot(spec) ==
    [parent |-> "ImportSpec", name |-> "Path", key |-> None, node |-> spec.Path]

RECURSIVE nodeAt(_, _)
nodeAt(n, p) == IF p = <<>> THEN n ELSE nodeAt(n.Elts[Head(p)].Value, Tail(p))

RECURSIVE replaceAt(_, _, _)
replaceAt(n, p, new) ==
    IF p = <<>> THEN new
    ELSE [n EXCEPT !.Elts[Head(p)].Value = replaceAt(@, Tail(p), new)]

\* the astutil.Cursor at path p: <<"Imports", k>> is the Path of import spec
\* k, <<"Decls", k>> is top-level slot k, and p \o <<j>> is the Value of the
\* j-th KeyValueExpr of the call at p
cursorAt(imps, ds, p) ==
    LET top == IF p[1] = "Imports" THEN importSlot(imps[p[2]]) ELSE ds[p[2]]
    IN  IF Len(p) = 2 THEN top
        ELSE LET kv == nodeAt(top.node, SubSeq(p, 3, Len(p) - 1)).Elts[p[Len(p)]]
             IN  [parent |-> "KeyValueExpr", name |-> "Value", key |-> kv.Key,
                  node |-> kv.Value]

\* the check with no tag slot recognized
isInStructTagNever(cursor) == FALSE

isInStructTag(cursor) == cursor.parent = "Field" /\ cursor.name = "Tag"

\* the check with the parent shape of a one-argument wrapper call
isWrappedByCallParent(cursor) ==
    /\ cursor.node.kind = "BasicLit"
    /\ cursor.parent = "CallExpr"

isWrappedByI18nT(cursor) ==
    /\ cursor.node.kind = "BasicLit"
    /\ cursor.parent = "KeyValueExpr"
    /\ cursor.key = "Other"

\* p > q on (line, column)
posGT(p, q) == p[1] > q[1] \/ (p[1] = q[1] /\ p[2] > q[2])

\* p >= q and p <= q on (line, column), as isInComment spells them out
posGE(p, q) == p[1] > q[1] \/ (p[1] = q[1] /\ p[2] >= q[2])

posLE(p, q) == p[1] < q[1] \/ (p[1] = q[1] /\ p[2] <= q[2])

\* the loop of isInComment over the comments, from index i on
RECURSIVE commentLoop(_, _, _, _)
commentLoop(nodePos, nodeEnd, cmts, i) ==
    IF i > Len(cmts) THEN FALSE
    ELSE IF posGE(nodePos, cmts[i].Pos) /\ posLE(nodeEnd, cmts[i].End) THEN TRUE
         ELSE commentLoop(nodePos, nodeEnd, cmts, i + 1)

isInComment(n, cmts) == commentLoop(n.Pos, n.End, cmts, 1)

\* the conditions of pre under which the node is replaced
eligible(cursor, cmts) ==
    /\ cursor.node.kind = "BasicLit"
    /\ cursor.node.Kind = "STRING"
    /\ ~isInStructTag(cursor)
    /\ ~isWrappedByI18nT(cursor)
    /\ hasChinese(cursor.node.Value)
    /\ ~isInComment(cursor.node, cmts)

\* cursor.Replace sets the parent's field by reflection: Field.Tag and
\* ImportSpec.Path are *ast.BasicLit and cannot hold a *ast.CallExpr
canHoldExpr(cursor) == cursor.name \notin {"Tag", "Path"}

\* strconv.Unquote of an import path literal
Unquote(v) == SubSeq(v, 2, Len(v) - 1)

\* astutil.AddImport: nothing when an unnamed import of the path exists,
\* else a new unnamed spec with the quoted path joins file.Imports
AddImport(imps, path) ==
    IF \E i \in 1..Len(imps) : imps[i].Name = "" /\ Unquote(imps[i].Path.Value) = path
    THEN imps
    ELSE Append(imps, [Name |-> "",
                       Path |-> BasicLit("STRING", <<Q>> \o path \o <<Q>>, NoPos, NoPos)])

\* the import never added
ensureI18nImportSkipped(imps) == imps

\* the import added without a look at file.Imports
ensureI18nImportAppend(imps) ==
    Append(imps, [Name |-> "",
                  Path |-> BasicLit("STRING", quotedImportPath, NoPos, NoPos)])

ensureI18nImport(imps) ==
    IF \E i \in 1..Len(imps) : imps[i].Path.Value = quotedImportPath
    THEN imps
    ELSE AddImport(imps, importPath)

(***************************************************************************)
(* The units the parser hands over.  The literal of slot i sits on line    *)
(* i + 1 from column 3 on.  fset.Position applies //line directives, so    *)
(* the line/column span of a literal may fall inside the span of a         *)
(* comment although the two tokens are disjoint in the file.               *)
(***************************************************************************)
MaxDecls == 2

MaxPasses == 2

Unit(imps, ds, cs) == [imports |-> imps, decls |-> ds, comments |-> cs]

NoUnit == Unit(<<>>, <<>>, <<>>)

strLit(i, text) == BasicLit("STRING", text, <<i + 1, 3>>, <<i + 1, 3 + Len(text)>>)

exprSlot(n) == [parent |-> "AssignStmt", name |-> "Rhs", key |-> None, node |-> n]

kvSlot(k, n) == [parent |-> "KeyValueExpr", name |-> "Value", key |-> k, node |-> n]

\* a call as an earlier run wrote it, read back by the parser
wrappedCall(i, idText, text) ==
    [kind |-> "CallExpr",
     Elts |-> << [Key |-> "MessageID",
                  Value |-> BasicLit("STRING", idText, <<i + 1, 1>>, <<i + 1, 2>>)],
                 [Key |-> "ID",
                  Value |-> BasicLit("STRING", <<Q, "n", "h", Q>>, <<i + 1, 2>>, <<i + 1, 3>>)],
                 [Key |-> "Other", Value |-> strLit(i, text)] >>]

SlotChoices(i) ==
    { exprSlot(strLit(i, <<Q, "ni", "hao", Q>>)),
      exprSlot(strLit(i, <<Q, "B", Q>>)),
      exprSlot(BasicLit("CHAR", <<"ni">>, <<i + 1, 3>>, <<i + 1, 4>>)),
      [parent |-> "Field", name |-> "Tag", key |-> None,
       node |-> strLit(i, <<BQ, "B", Q, "ni", Q, BQ>>)],
      kvSlot("Other", strLit(i, <<Q, "ni", "hao", Q>>)),
      exprSlot(wrappedCall(i, <<Q, "n", "h", Q>>, <<Q, "ni", "hao", Q>>)),
      exprSlot(wrappedCall(i, <<Q, "hao", Q>>, <<Q, "ni", "hao", Q>>)) }

DeclChoices ==
    UNION { { ds \in [1..n -> UNION { SlotChoices(i) : i \in 1..n }] :
                \A i \in 1..n : ds[i] \in SlotChoices(i) } : n \in 0..MaxDecls }

CommentChoices ==
    { <<>>,
      << [Pos |-> <<2, 1>>, End |-> <<2, 9>>] >>,
      << [Pos |-> <<2, 4>>, End |-> <<3, 9>>] >> }

importSpec(name, value) ==
    [Name |-> name, Path |-> BasicLit("STRING", value, <<1, 8>>, <<1, 9>>)]

ImportChoices ==
    { <<>>,
      << importSpec("", quotedImportPath) >>,
      << importSpec("", <<Q, "fmt", Q>>) >>,
      << importSpec("", <<Q, "ni", Q>>) >>,
      << importSpec("alias", <<BQ, "i18n", BQ>>) >> }

Units == { Unit(i, d, c) : i \in ImportChoices, d \in DeclChoices, c \in CommentChoices }

(***************************************************************************)
(* main and transform                                                      *)
(***************************************************************************)
Init ==
    /\ pc = "main"
    /\ unit0 \in Units
    /\ outFile = "untouched"
    /\ imports = <<>> /\ decls = <<>> /\ comments = <<>>
    /\ stack = <<>>
    /\ needsImport = FALSE
    /\ rewrites = 0
    /\ pass = 0
    /\ entry = NoUnit
    /\ ensureCalls = 0
    /\ message = <<>> /\ msgID = None /\ node = None /\ found = FALSE

\* len(os.Args) != 3
Usage ==
    /\ pc = "main"
    /\ pc' = "usage"
    /\ UNCHANGED <<imports, decls, comments, stack, needsImport, rewrites, pass,
                   entry, unit0, ensureCalls, outFile, message, msgID, node, found>>

\* parser.ParseFile: the tree, or an error and panic(err)
ParseFile ==
    /\ pc = "main"
    /\ \E ok \in BOOLEAN :
         IF ok
         THEN /\ imports' = unit0.imports
              /\ decls' = unit0.decls
              /\ comments' = unit0.comments
              /\ pc' = "parsed"
         ELSE /\ pc' = "parsePanic"
              /\ UNCHANGED <<imports, decls, comments>>
    /\ UNCHANGED <<stack, needsImport, rewrites, pass, entry, unit0, ensureCalls,
                   outFile, message, msgID, node, found>>

\* transform is entered: needsImport := false, and astutil.Apply starts at
\* the top-level slots; a further pass runs on the tree the last one left
TransformBegin ==
    /\ pc \in {"parsed", "transformed"}
    /\ pass < MaxPasses
    /\ pass' = pass + 1
    /\ entry' = Unit(imports, decls, comments)
    /\ needsImport' = FALSE
    /\ rewrites' = 0
    /\ ensureCalls' = 0
    /\ stack' = [k \in 1..Len(imports) |-> <<"Imports", k>>]
                 \o [k \in 1..Len(decls) |-> <<"Decls", k>>]
    /\ pc' = "walk"
    /\ UNCHANGED <<imports, decls, comments, unit0, outFile, message, msgID, node, found>>

\* the paths of the children astutil.Apply walks under the node at p
children(n, p) ==
    IF n.kind = "CallExpr" THEN [j \in 1..Len(n.Elts) |-> p \o <<j>>] ELSE <<>>

\* cursor.Replace(newNode) at path p, a path of file.Decls
replaceDecl(ds, p, new) ==
    [ds EXCEPT ![p[2]].node = replaceAt(@, SubSeq(p, 3, Len(p)), new)]

\* pre with ensureI18nImport called at the replacement, inside the walk
VisitEnsureInside ==
    /\ pc = "walk"
    /\ stack # <<>>
    /\ LET p == Head(stack)
           cursor == cursorAt(imports, decls, p)
       IN  IF eligible(cursor, comments)
           THEN /\ needsImport' = TRUE
                /\ IF canHoldExpr(cursor)
                   THEN /\ decls' = replaceDecl(decls, p, newNode(cursor.node))
                        /\ imports' = ensureI18nImport(imports)
                        /\ rewrites' = rewrites + 1
                        /\ stack' = Tail(stack)
                        /\ pc' = pc
                   ELSE /\ pc' = "replacePanic"
                        /\ UNCHANGED <<decls, imports, rewrites, stack>>
           ELSE /\ stack' = children(cursor.node, p) \o Tail(stack)
                /\ UNCHANGED <<pc, decls, imports, needsImport, rewrites>>
    /\ UNCHANGED <<comments, pass, entry, unit0, ensureCalls, outFile,
                   message, msgID, node, found>>

\* one call of pre by astutil.Apply, and the descent that follows it
Visit ==
    /\ pc = "walk"
    /\ stack # <<>>
    /\ LET p == Head(stack)
           cursor == cursorAt(imports, decls, p)
       IN  IF eligible(cursor, comments)
           THEN /\ needsImport' = TRUE
                /\ IF canHoldExpr(cursor)
                   THEN /\ decls' = replaceDecl(decls, p, newNode(cursor.node))
                        /\ rewrites' = rewrites + 1
                        /\ stack' = Tail(stack)
                        /\ pc' = pc
                   ELSE /\ pc' = "replacePanic"
                        /\ UNCHANGED <<decls, rewrites, stack>>
           ELSE /\ stack' = children(cursor.node, p) \o Tail(stack)
                /\ UNCHANGED <<pc, decls, needsImport, rewrites>>
    /\ UNCHANGED <<imports, comments, pass, entry, unit0, ensureCalls, outFile,
                   message, msgID, node, found>>

\* the end of transform without the needsImport test
TransformEndAlways ==
    /\ pc = "walk"
    /\ stack = <<>>
    /\ imports' = ensureI18nImport(imports)
    /\ ensureCalls' = ensureCalls + 1
    /\ pc' = "transformed"
    /\ UNCHANGED <<decls, comments, stack, needsImport, rewrites, pass, entry, unit0,
                   outFile, message, msgID, node, found>>

\* astutil.Apply has returned: if needsImport { ensureI18nImport(file, fset) }
TransformEnd ==
    /\ pc = "walk"
    /\ stack = <<>>
    /\ IF needsImport
       THEN /\ imports' = ensureI18nImport(imports)
            /\ ensureCalls' = ensureCalls + 1
       ELSE UNCHANGED <<imports, ensureCalls>>
    /\ pc' = "transformed"
    /\ UNCHANGED <<decls, comments, stack, needsImport, rewrites, pass, entry, unit0,
                   outFile, message, msgID, node, found>>

\* os.Create placed ahead of parser.ParseFile
CreateOutputEarly ==
    /\ pc \in {"main", "transformed"}
    /\ \E ok \in BOOLEAN :
         IF ok
         THEN outFile' = "empty" /\ pc' = "created"
         ELSE outFile' = outFile /\ pc' = "createPanic"
    /\ UNCHANGED <<imports, decls, comments, stack, needsImport, rewrites, pass,
                   entry, unit0, ensureCalls, message, msgID, node, found>>

\* os.Create(outputFile): the file is created or truncated, or panic(err)
CreateOutput ==
    /\ pc = "transformed"
    /\ \E ok \in BOOLEAN :
         IF ok
         THEN outFile' = "empty" /\ pc' = "created"
         ELSE outFile' = outFile /\ pc' = "createPanic"
    /\ UNCHANGED <<imports, decls, comments, stack, needsImport, rewrites, pass,
                   entry, unit0, ensureCalls, message, msgID, node, found>>

\* printer.Fprint(out, fset, file): the whole text, or an error after some
\* or none of it was written, and panic(err); the deferred Close keeps the file
Fprint ==
    /\ pc = "created"
    /\ \/ outFile' = "complete" /\ pc' = "done"
       \/ outFile' \in {"empty", "partial"} /\ pc' = "printPanic"
    /\ UNCHANGED <<imports, decls, comments, stack, needsImport, rewrites, pass,
                   entry, unit0, ensureCalls, message, msgID, node, found>>

Next ==
    \/ Usage
    \/ ParseFile
    \/ TransformBegin
    \/ Visit
    \/ TransformEnd
    \/ CreateOutput
    \/ Fprint

Spec == Init /\ [][Next]_vars

(***************************************************************************)
(* Definitions the properties share                                        *)
(***************************************************************************)
current == Unit(imports, decls, comments)

\* the paths of the nodes of the tree under n, whose own path is p
RECURSIVE pathsUnder(_, _)
pathsUnder(n, p) ==
    {p} \cup (IF n.kind = "CallExpr"
              THEN UNION { pathsUnder(n.Elts[j].Value, p \o <<j>>) : j \in 1..Len(n.Elts) }
              ELSE {})

allPaths(u) ==
    { <<"Imports", k>> : k \in 1..Len(u.imports) }
        \cup UNION { pathsUnder(u.decls[k].node, <<"Decls", k>>) : k \in 1..Len(u.decls) }

cursorIn(u, p) == cursorAt(u.imports, u.decls, p)

eligiblePaths(u) == { p \in allPaths(u) : eligible(cursorIn(u, p), u.comments) }

\* some import spec of the list names the localization dependency
importsDependency(imps) ==
    \E i \in 1..Len(imps) : Unquote(imps[i].Path.Value) = importPath

nodeIn(u, p) == cursorIn(u, p).node

\* n is the call transform builds around the literal lit
isCallAround(n, lit) ==
    /\ n.kind = "CallExpr"
    /\ Len(n.Elts) = 3
    /\ n.Elts[1].Key = "MessageID"
    /\ n.Elts[1].Value.kind = "BasicLit"
    /\ n.Elts[1].Value.Value = <<Q>> \o generateMessageID(lit.Value) \o <<Q>>
    /\ n.Elts[2].Key = "ID"
    /\ n.Elts[2].Value.kind = "BasicLit"
    /\ n.Elts[2].Value.Value = <<Q>> \o generateMessageID(lit.Value) \o <<Q>>
    /\ n.Elts[3].Key = "Other"
    /\ n.Elts[3].Value = lit

\* the running pass has ended, by returning or by a panic inside it
passEnded == pc \in {"transformed", "replacePanic"}

(***************************************************************************)
(* C1: idempotence of transform.  A pass that runs on the tree an earlier  *)
(* pass returned finds no eligible literal (the Other literals and the     *)
(* synthesized MessageID/ID literals included), never panics, and returns  *)
(* with zero rewrites, no ensureI18nImport call, and the tree, the import  *)
(* list and the comment list as it found them.                             *)
(***************************************************************************)
C1_TransformIdempotent ==
    pass >= 2 =>
        /\ eligiblePaths(entry) = {}
        /\ pc # "replacePanic"
        /\ pc = "transformed" => (rewrites = 0 /\ ensureCalls = 0 /\ current = entry)

\* a second pass has returned on a tree in which the first one wrapped a literal
C1_Witness ==
    /\ pass = 2
    /\ pc = "transformed"
    /\ entry.decls # unit0.decls
    /\ \E p \in allPaths(entry) :
         cursorIn(entry, p).key = "Other" /\ hasChinese(nodeIn(entry, p).Value)

(***************************************************************************)
(* C2: when a pass has ended, every literal that was eligible when it      *)
(* began has been replaced, at its place, by one call whose MessageID and  *)
(* ID literals are generateMessageID of its text and whose Other is the    *)
(* literal itself, and the pass made as many calls as there were eligible  *)
(* literals.                                                               *)
(***************************************************************************)
C2_EveryEligibleReplaced ==
    (pass >= 1 /\ passEnded) =>
        /\ \A p \in eligiblePaths(entry) :
             isCallAround(nodeIn(current, p), nodeIn(entry, p))
        /\ rewrites = Cardinality(eligiblePaths(entry))

(***************************************************************************)
(* C2, for the passes that return: the statement of C2 holds of every pass *)
(* that astutil.Apply completes; while the walk runs, every node still to  *)
(* be visited is a node of the tree the pass began with, so no node the    *)
(* pass inserted is ever visited.                                          *)
(***************************************************************************)
C2_ReplacedWhenReturned ==
    /\ (pass >= 1 /\ pc = "transformed") =>
          /\ \A p \in eligiblePaths(entry) :
               isCallAround(nodeIn(current, p), nodeIn(entry, p))
          /\ rewrites = Cardinality(eligiblePaths(entry))
    /\ pc = "walk" =>
          \A i \in 1..Len(stack) :
             /\ stack[i] \in allPaths(entry)
             /\ nodeIn(current, stack[i]) = nodeIn(entry, stack[i])

C2_Witness ==
    /\ pc = "transformed"
    /\ rewrites = 2
    /\ \E p \in eligiblePaths(entry) : Len(p) = 3

(***************************************************************************)
(* C3 as claimed: after transform the import of the localization           *)
(* dependency is in the import list if and only if the pass rewrote at     *)
(* least one literal.                                                      *)
(***************************************************************************)
C3_ImportIffRewritten ==
    (pass >= 1 /\ pc = "transformed") => (importsDependency(imports) <=> rewrites >= 1)

(***************************************************************************)
(* C3 amended: after transform the import of the localization dependency   *)
(* is in the import list if at least one literal was rewritten; if none    *)
(* was, the import list is the one the pass began with, so the import is   *)
(* there if and only if it was there before.                               *)
(***************************************************************************)
C3_ImportGating ==
    (pass >= 1 /\ pc = "transformed") =>
        /\ rewrites >= 1 => importsDependency(imports)
        /\ rewrites = 0 => imports = entry.imports
        /\ importsDependency(imports) <=>
              (rewrites >= 1 \/ importsDependency(entry.imports))

\* a pass has rewritten a literal of a unit that did not import the dependency
C3_Witness ==
    /\ pc = "transformed"
    /\ rewrites >= 1
    /\ ~importsDependency(entry.imports)
    /\ importsDependency(imports)

(***************************************************************************)
(* C4: tag exclusion.  A literal that is the Tag of a struct field is      *)
(* never replaced, whatever its text and wherever the comments lie, and    *)
(* it does not set needsImport: the flag is set only if the unit holds a   *)
(* target-script literal outside the tag slots.                            *)
(***************************************************************************)
isTagSlot(u, p) == cursorIn(u, p).parent = "Field" /\ cursorIn(u, p).name = "Tag"

C4_TagExclusion ==
    pass >= 1 =>
        /\ \A p \in allPaths(entry) :
             isTagSlot(entry, p) => nodeIn(current, p) = nodeIn(entry, p)
        /\ needsImport =>
             \E p \in allPaths(entry) :
                /\ ~isTagSlot(entry, p)
                /\ nodeIn(entry, p).kind = "BasicLit"
                /\ hasChinese(nodeIn(entry, p).Value)
        /\ (\A p \in allPaths(entry) :
               nodeIn(entry, p).kind = "BasicLit" /\ hasChinese(nodeIn(entry, p).Value)
                  => isTagSlot(entry, p))
             => (pc # "replacePanic" /\ imports = entry.imports /\ ensureCalls = 0)

\* a pass has returned on a unit whose tag holds target-script text outside
\* every comment
C4_Witness ==
    /\ pc = "transformed"
    /\ \E p \in allPaths(entry) :
         /\ isTagSlot(entry, p)
         /\ hasChinese(nodeIn(entry, p).Value)
         /\ ~isInComment(nodeIn(entry, p), entry.comments)
         /\ nodeIn(current, p) = nodeIn(entry, p)
    /\ ~needsImport

(***************************************************************************)
(* C6: no-rewrite frame.  On a unit without eligible literal transform     *)
(* changes neither a declaration nor the comment list nor the import       *)
(* list, at no point of the pass, and never calls ensureI18nImport.        *)
(***************************************************************************)
C6_NoRewriteFrame ==
    (pass >= 1 /\ eligiblePaths(entry) = {}) =>
        /\ current = entry
        /\ ensureCalls = 0
        /\ rewrites = 0
        /\ pc # "replacePanic"

\* a pass has returned on a unit that holds literals, none of them eligible
C6_Witness ==
    /\ pc = "transformed"
    /\ pass = 1
    /\ eligiblePaths(entry) = {}
    /\ Len(entry.decls) = 2
    /\ \E p \in allPaths(entry) :
         /\ nodeIn(entry, p).kind = "BasicLit"
         /\ hasChinese(nodeIn(entry, p).Value)

(***************************************************************************)
(* C10: when the run has aborted after os.Create succeeded, no truncated   *)
(* or partly written file is left at the output path.                      *)
(***************************************************************************)
C10_NoPartialOutput ==
    pc = "printPanic" => outFile \notin {"empty", "partial"}

(***************************************************************************)
(* generateMessageID on its own: every text of at most MaxLen runes        *)
(***************************************************************************)
MaxLen == 6

Texts == UNION { [1..n -> Runes] : n \in 0..MaxLen }

InitGen ==
    /\ pc = "gen"
    /\ message \in Texts
    /\ msgID = None
    /\ imports = <<>> /\ decls = <<>> /\ comments = <<>> /\ stack = <<>>
    /\ needsImport = FALSE /\ rewrites = 0 /\ pass = 0
    /\ unit0 = NoUnit /\ outFile = "untouched"
    /\ entry = NoUnit /\ ensureCalls = 0 /\ node = None /\ found = FALSE

GenerateMessageID ==
    /\ pc = "gen"
    /\ msgID' = generateMessageID(message)
    /\ pc' = "genDone"
    /\ UNCHANGED <<imports, decls, comments, stack, needsImport, rewrites, pass,
                   entry, unit0, ensureCalls, outFile, message, node, found>>

NextGen == GenerateMessageID

SpecGen == InitGen /\ [][NextGen]_vars

(***************************************************************************)
(* isInComment on its own: every node span and every list of at most two   *)
(* comment spans on a grid of MaxCoord lines and columns                   *)
(***************************************************************************)
MaxCoord == 2

Coords == (1..MaxCoord) \X (1..MaxCoord)

\* a span ends at or after its start
Spans ==
    { sp \in { [Pos |-> a, End |-> b] : a, b \in Coords } :
        sp.Pos[1] < sp.End[1] \/ (sp.Pos[1] = sp.End[1] /\ sp.Pos[2] <= sp.End[2]) }

CommentLists ==
    {<<>>} \cup { <<a>> : a \in Spans } \cup { <<a, b>> : a, b \in Spans }

InitCmt ==
    /\ pc = "cmt"
    /\ node \in Spans
    /\ comments \in CommentLists
    /\ found = FALSE
    /\ imports = <<>> /\ decls = <<>> /\ stack = <<>>
    /\ needsImport = FALSE /\ rewrites = 0 /\ pass = 0
    /\ unit0 = NoUnit /\ outFile = "untouched"
    /\ entry = NoUnit /\ ensureCalls = 0 /\ message = <<>> /\ msgID = None

IsInComment ==
    /\ pc = "cmt"
    /\ found' = isInComment(node, comments)
    /\ pc' = "cmtDone"
    /\ UNCHANGED <<imports, decls, comments, stack, needsImport, rewrites, pass,
                   entry, unit0, ensureCalls, outFile, message, msgID, node>>

NextCmt == IsInComment

SpecCmt == InitCmt /\ [][NextCmt]_vars

(***************************************************************************)
(* ensureI18nImport on its own: every import list of at most MaxImports    *)
(* specs, called up to MaxCalls times                                      *)
(***************************************************************************)
MaxImports == 3

MaxCalls == 3

ImportSpecs ==
    { importSpec("", quotedImportPath),
      importSpec("alias", quotedImportPath),
      importSpec("", <<BQ, "i18n", BQ>>),
      importSpec("alias", <<BQ, "i18n", BQ>>),
      importSpec("", <<Q, "fmt", Q>>) }

ImportLists == UNION { [1..n -> ImportSpecs] : n \in 0..MaxImports }

InitImp ==
    /\ pc = "imp"
    /\ imports \in ImportLists
    /\ entry = Unit(imports, <<>>, <<>>)
    /\ ensureCalls = 0
    /\ decls = <<>> /\ comments = <<>> /\ stack = <<>>
    /\ needsImport = FALSE /\ rewrites = 0 /\ pass = 0
    /\ unit0 = NoUnit /\ outFile = "untouched"
    /\ message = <<>> /\ msgID = None /\ node = None /\ found = FALSE

EnsureI18nImport ==
    /\ pc = "imp"
    /\ ensureCalls < MaxCalls
    /\ imports' = ensureI18nImport(imports)
    /\ ensureCalls' = ensureCalls + 1
    /\ UNCHANGED <<pc, decls, comments, stack, needsImport, rewrites, pass, entry,
                   unit0, outFile, message, msgID, node, found>>

NextImp == EnsureI18nImport

SpecImp == InitImp /\ [][NextImp]_vars

(***************************************************************************)
(* Definitions the properties of the functions share                       *)
(***************************************************************************)
Take(s, n) == SubSeq(s, 1, IF Len(s) < n THEN Len(s) ELSE n)

\* the text without its wrapping delimiters
stripped(m) == Trim(m)

hasReading(r) == hasChineseRune(r) /\ Pinyin(r) # <<>>

\* the first letters of the readings of the runes of s, in order
RECURSIVE firstLetters(_)
firstLetters(s) ==
    IF s = <<>> THEN <<>>
    ELSE (IF Pinyin(Head(s)) # <<>> THEN <<Pinyin(Head(s))[1][1]>> ELSE <<>>)
            \o firstLetters(Tail(s))

asciiLetters == {"B", "b", "n", "h", "m", "s", "g"}

asciiAlnums == asciiLetters \cup {"7"}

lowered(s) == [i \in 1..Len(s) |-> IF s[i] = "B" THEN "b" ELSE s[i]]

isAsciiAlnum(r) == r \in asciiAlnums

\* position as one number, lines before columns
lexRank(c) == c[1] * (MaxCoord + 1) + c[2]

(***************************************************************************)
(* C5: comment containment.  isInComment answers true if and only if one   *)
(* comment span [cs, ce] has s >= cs and e <= ce in the lexicographic      *)
(* order of (line, column), both bounds inclusive.                         *)
(***************************************************************************)
C5_CommentContainment ==
    pc = "cmtDone" =>
        (found <=> \E i \in 1..Len(comments) :
                      /\ lexRank(node.Pos) >= lexRank(comments[i].Pos)
                      /\ lexRank(node.End) <= lexRank(comments[i].End))

\* the answer is false for a node that two comments cover together, each of
\* them overlapping it, and none alone
C5_Witness ==
    /\ pc = "cmtDone"
    /\ ~found
    /\ Len(comments) = 2
    /\ lexRank(comments[1].Pos) <= lexRank(node.Pos)
    /\ lexRank(node.Pos) <= lexRank(comments[1].End)
    /\ lexRank(comments[1].End) < lexRank(node.End)
    /\ lexRank(comments[2].Pos) <= lexRank(comments[1].End)
    /\ lexRank(node.End) <= lexRank(comments[2].End)

\* the answer is true for a node that starts where the comment starts and
\* ends where it ends
C5_WitnessInclusive ==
    /\ pc = "cmtDone"
    /\ found
    /\ Len(comments) = 1
    /\ comments[1] = node

C8_SlugTotal ==
    pc = "genDone" =>
        LET t == stripped(message)
            alnums == SelectSeq(t, isAsciiAlnum)
            readings == SelectSeq(t, hasReading)
        IN  /\ Len(msgID) >= 1
            /\ msgID[1] \in asciiLetters
            /\ t = <<>> => msgID = msg
            /\ (hasChinese(t) /\ readings = <<>>) => msgID = msg
            /\ (~hasChinese(t) /\ alnums = <<>>) => msgID = msg
            /\ (~hasChinese(t) /\ alnums # <<>> /\ alnums[1] \notin asciiLetters)
                  => msgID = msg
            /\ (~hasChinese(t) /\ alnums # <<>> /\ alnums[1] \in asciiLetters)
                  => msgID = lowered(Take(alnums, MaxChars))

\* a text without target-script rune whose first alphanumeric is a digit
C8_Witness ==
    /\ pc = "genDone"
    /\ ~hasChinese(stripped(message))
    /\ SelectSeq(stripped(message), isAsciiAlnum) # <<>>
    /\ SelectSeq(stripped(message), isAsciiAlnum)[1] = "7"
    /\ Len(SelectSeq(stripped(message), isAsciiAlnum)) > MaxChars
    /\ msgID = msg

(***************************************************************************)
(* C9 as claimed: after one or more calls of ensureI18nImport the unit     *)
(* has exactly one import declaration for the dependency path, and a unit  *)
(* that had an import with that path keeps its import list.                *)
(***************************************************************************)
dependencyImports(imps) ==
    Cardinality({ i \in 1..Len(imps) : Unquote(imps[i].Path.Value) = importPath })

C9_ExactlyOneImport ==
    (pc = "imp" /\ ensureCalls >= 1) =>
        /\ dependencyImports(imports) = 1
        /\ (\E i \in 1..Len(entry.imports) :
               entry.imports[i].Path.Value = quotedImportPath)
             => imports = entry.imports

(***************************************************************************)
(* C9 amended: ensureI18nImport adds at most one import declaration, and   *)
(* only in the first call: any number of calls leaves the list one call    *)
(* leaves.  After it the unit has at least one declaration for the path,   *)
(* exactly one if it had none before; nothing of the list it had is        *)
(* changed; and if a spec's path literal was the double-quoted path        *)
(* before the first call, no declaration is added and the import list is   *)
(* unchanged.                                                              *)
(***************************************************************************)
C9_EnsureIdempotent ==
    (pc = "imp" /\ ensureCalls >= 1) =>
        /\ imports = ensureI18nImport(entry.imports)
        /\ dependencyImports(imports) >= 1
        /\ dependencyImports(imports) <= dependencyImports(entry.imports) + 1
        /\ dependencyImports(entry.imports) = 0 => dependencyImports(imports) = 1
        /\ SubSeq(imports, 1, Len(entry.imports)) = entry.imports
        /\ (\E i \in 1..Len(entry.imports) :
               entry.imports[i].Path.Value = quotedImportPath)
             => imports = entry.imports

\* three calls on a unit that did not import the dependency
C9_Witness ==
    /\ pc = "imp"
    /\ ensureCalls = 3
    /\ dependencyImports(entry.imports) = 0
    /\ Len(entry.imports) >= 1
    /\ dependencyImports(imports) = 1

(***************************************************************************)
(* C11: no output without a successful parse.  The output path is touched  *)
(* only after the parser has returned a tree and transform has run on it;  *)
(* after the usage message (wrong number of arguments) and after a parse   *)
(* failure the run is over: no tree, no transform pass, no rewrite, the    *)
(* output path untouched, and no further step.                             *)
(***************************************************************************)
C11_NoOutputWithoutParse ==
    /\ [](/\ outFile # "untouched" =>
               (pass >= 1 /\ pc \in {"created", "done", "printPanic"})
          /\ pc \in {"usage", "parsePanic"} =>
               /\ outFile = "untouched"
               /\ pass = 0
               /\ rewrites = 0
               /\ needsImport = FALSE
               /\ current = NoUnit)
    /\ [][pc \notin {"usage", "parsePanic"}]_vars

\* the parser has failed on a unit that holds an eligible literal
C11_Witness ==
    /\ pc = "parsePanic"
    /\ eligiblePaths(unit0) # {}
    /\ outFile = "untouched"

\* the usage message has been printed
C11_WitnessUsage ==
    /\ pc = "usage"
    /\ outFile = "untouched"


(***************************************************************************)
(* C12: already-wrapped recognition is exact.  A literal counts as wrapped *)
(* only under an Other key inside a call: when a pass has returned, every  *)
(* target-script string literal that was the value of an Other key of a    *)
(* composite value outside any call, and outside every comment, has been   *)
(* replaced at its place by the call transform builds around it.           *)
(***************************************************************************)
bareOtherPaths(u) ==
    { p \in allPaths(u) :
        /\ Len(p) = 2
        /\ cursorIn(u, p).parent = "KeyValueExpr"
        /\ cursorIn(u, p).key = "Other"
        /\ nodeIn(u, p).kind = "BasicLit"
        /\ nodeIn(u, p).Kind = "STRING"
        /\ hasChinese(nodeIn(u, p).Value)
        /\ ~isInComment(nodeIn(u, p), u.comments) }

C12_BareOtherRewritten ==
    (pass >= 1 /\ pc = "transformed") =>
        \A p \in bareOtherPaths(entry) :
           isCallAround(nodeIn(current, p), nodeIn(entry, p))


(***************************************************************************)
(* C13: transform has no internal failure.  No pass over a parsed unit     *)
(* ends in a panic of cursor.Replace, whatever slot holds a target-script  *)
(* string literal: a slot that holds only a literal (Field.Tag,            *)
(* ImportSpec.Path) is never handed a call.                                *)
(***************************************************************************)
C13_NoInternalFailure == pass >= 1 => pc # "replacePanic"


(***************************************************************************)
(* C14: ordering of mutation.  While the walk of a pass runs, and when it  *)
(* has panicked, the import list and the comment list are the ones the     *)
(* pass began with, and the comment list is the parsed unit's in every     *)
(* pass; the import list changes only in the step that follows the visit   *)
(* of the last node, by the one call of ensureI18nImport that needsImport  *)
(* allows, and a pass calls it at most once.  The comment list never       *)
(* changes after the parse.                                                *)
(***************************************************************************)
C14_MutationOrder ==
    /\ [](/\ pc \in {"walk", "replacePanic"} =>
               (imports = entry.imports /\ comments = entry.comments)
          /\ pass >= 1 => (comments = unit0.comments /\ ensureCalls <= 1))
    /\ [][imports' # imports =>
            \/ pc = "main"
            \/ /\ pc = "walk"
               /\ stack = <<>>
               /\ needsImport
               /\ pc' = "transformed"
               /\ ensureCalls' = ensureCalls + 1
               /\ imports' = ensureI18nImport(imports)]_vars
    /\ [][comments' # comments => pc = "main"]_vars

\* a pass has returned that answered a comment query with yes, rewrote a
\* literal outside the comments and then added the import
C14_Witness ==
    /\ pc = "transformed"
    /\ ensureCalls = 1
    /\ imports # entry.imports
    /\ rewrites >= 1
    /\ \E p \in allPaths(entry) :
         /\ nodeIn(entry, p).kind = "BasicLit"
         /\ hasChinese(nodeIn(entry, p).Value)
         /\ isInComment(nodeIn(entry, p), entry.comments)
         /\ nodeIn(current, p) = nodeIn(entry, p)

====
